---- MODULE Spec2Model ----
(***************************************************************************)
(* Model of installer.py: codename resolution from /etc/os-release, the    *)
(* discovery of *.pkglist / *.prepkg.* / *.postpkg.* files under the       *)
(* folders given on the command line, and the sequential driver that runs  *)
(* pre-hooks, apt update, apt install, the backports install and           *)
(* post-hooks through execute_subprocess.                                  *)
(*                                                                         *)
(* Conventions.  A text is a sequence of one-character strings.  A path is *)
(* a sequence of path components, absolute when its first component is     *)
(* "/".  A file name is the sequence of its dot-separated components, so   *)
(* common.prepkg.sh is <<"common", "prepkg", "sh">>.  A Python Optional    *)
(* is a sequence of length 0 (None) or 1.                                  *)
(***************************************************************************)
EXTENDS Integers, Sequences, FiniteSets, TLC

VARIABLES
    os_release_file,        \* /etc/os-release: <<>> when absent, else <<lines>>
    argv_folders,           \* args.folder, as given
    fs,                     \* the files below the working directory: path -> content
    os_environ,             \* os.environ of the program: name -> value
    fs_seen,                \* history: the files as the discovery found them
    pc,                     \* position of main()
    codename,               \* Optional: the value returned by get_codename()
    raised,                 \* Optional: the exception that left main() uncaught
    prehook_list,
    package_list,
    package_backport_list,
    posthook_list,
    package_src,            \* history: where each entry of package_list came from
    backport_src,           \* history: the same for package_backport_list
    globbed,                \* history: the glob calls made, in order
    hook_idx,               \* index of the for loops over the hook lists
    log,                    \* history: the execute_subprocess calls, in order
    exit_status             \* Optional: exit status of the program

vars == <<os_release_file, argv_folders, fs, os_environ, fs_seen, pc, codename, raised, prehook_list,
          package_list, package_backport_list, posthook_list, package_src,
          backport_src, globbed, hook_idx, log, exit_status>>

(***************************************************************************)
(* Bounds of the model.                                                    *)
(***************************************************************************)
MaxFiles == 2
MaxContentLen == 4

None == <<>>
Some(x) == <<x>>
NL == "\n"

\* Flattening of a sequence of sequences (Python's repeated +=).
RECURSIVE Concat(_)
Concat(ss) ==
    IF ss = <<>> THEN <<>> ELSE Head(ss) \o Concat(Tail(ss))

Range(s) == {s[k] : k \in 1..Len(s)}

\* The elements of a finite set of sequences, up to length n.
SeqsUpTo(S, n) == UNION {[1..k -> S] : k \in 0..n}

(***************************************************************************)
(* /etc/os-release                                                         *)
(***************************************************************************)
\* A line KEY=VALUE of the file, after the regular expression has split it.
OsLine(k, v) == [key |-> k, value |-> v]

\* dict assignment d[k] = v
DictSet(d, k, v) == [x \in (DOMAIN d) \cup {k} |-> IF x = k THEN v ELSE d[x]]

EmptyDict == [x \in {} |-> ""]

RECURSIVE ParseLines(_, _)
ParseLines(lines, d) ==
    IF lines = <<>> THEN d
    ELSE ParseLines(Tail(lines), DictSet(d, Head(lines).key, Head(lines).value))

parse_os_release ==
    IF os_release_file = None THEN EmptyDict
    ELSE ParseLines(os_release_file[1], EmptyDict)

\* Results of a Python call: a value or a raised exception.
Return(v) == [tag |-> "return", value |-> v, exc |-> "", msg |-> ""]
Raise(e, m) == [tag |-> "raise", value |-> "", exc |-> e, msg |-> m]

get_os_id ==
    IF "ID" \in DOMAIN parse_os_release
    THEN Return(parse_os_release["ID"])
    ELSE Raise("KeyError", "ID")

\* An Optional: None when the key is missing.
get_os_version_id ==
    IF "VERSION_ID" \in DOMAIN parse_os_release
    THEN Some(parse_os_release["VERSION_ID"])
    ELSE None

\* A debian branch that looks the missing version up as it is.
DebianBranch_NoDefault ==
    LET fetched == get_os_version_id
    IN  IF fetched = None
        THEN Raise("RuntimeError", "Unable to find Debian distro codename")
        ELSE CASE fetched[1] = "9"  -> Return("stretch")
               [] fetched[1] = "10" -> Return("buster")
               [] fetched[1] = "11" -> Return("bullseye")
               [] fetched[1] = "12" -> Return("bookworm")
               [] OTHER -> Raise("RuntimeError", "Unable to find Debian distro codename")

DebianBranch ==
    LET fetched == get_os_version_id
        os_version_id == IF fetched = None THEN "12" ELSE fetched[1]
    IN  CASE os_version_id = "9"  -> Return("stretch")
          [] os_version_id = "10" -> Return("buster")
          [] os_version_id = "11" -> Return("bullseye")
          [] os_version_id = "12" -> Return("bookworm")
          [] OTHER -> Raise("RuntimeError", "Unable to find Debian distro codename")

\* os_version_id is a local of get_codename that is assigned only in the
\* debian branch: reading it here raises UnboundLocalError.
UbuntuBranch == Raise("UnboundLocalError", "os_version_id")

get_codename ==
    IF get_os_id.tag = "raise" THEN get_os_id
    ELSE IF get_os_id.value = "debian" THEN DebianBranch
    ELSE IF get_os_id.value = "ubuntu" THEN UbuntuBranch
    ELSE Raise("RuntimeError", "Unable to find Linux distribution")

(***************************************************************************)
(* Paths and the file system                                               *)
(***************************************************************************)
cwd == <<"/", "w">>

IsAbsolute(d) == d # <<>> /\ d[1] = "/"

\* Path.resolve(): the folders hold no symbolic link and no "..".
resolve(d) == IF IsAbsolute(d) THEN d ELSE cwd \o d

\* A file: the directory it is in and its name.
File(d, n) == [dir |-> d, name |-> n]

\* The file of the file system that a path object designates.
OnDisk(f) == File(resolve(f.dir), f.name)

read_text(f) == fs[OnDisk(f)]

\* The directories below the working directory, in the order scandir lists
\* them.
DirListing == << <<"A">>, <<"A", "x">>, <<"B">> >>

\* The order in which scandir lists the file names of one directory.
NameListing ==
    << <<"common", "pkglist">>, <<"bookworm", "pkglist">>,
       <<"bookworm-backports", "pkglist">>, <<"buster", "pkglist">>,
       <<"common", "prepkg", "sh">>, <<"common", "prepkg", "d">>,
       <<"bookworm", "prepkg", "py">>, <<"buster", "prepkg", "sh">>,
       <<"common", "postpkg", "sh">>, <<"bookworm", "postpkg", "sh">> >>

\* The names of NameListing that are names of (empty) directories; the
\* others are names of regular files.
DirNames == {<<"common", "prepkg", "d">>}
IsDir(f) == f.name \in DirNames
FileNames == {n \in Range(NameListing) : n \notin DirNames}

IsPrefix(a, b) == Len(a) <= Len(b) /\ SubSeq(b, 1, Len(a)) = a

\* Sub-directories of d, as paths built on d the way pathlib builds them.
ChildDirs(d) ==
    LET kids == SelectSeq(DirListing,
                    LAMBDA c : Len(c) > 0
                               /\ cwd \o SubSeq(c, 1, Len(c) - 1) = resolve(d))
    IN  [k \in 1..Len(kids) |-> d \o <<kids[k][Len(kids[k])]>>]

\* The "**" part of a pattern: d itself, then every directory below it,
\* parents before children.
RECURSIVE iterate_directories(_)
RECURSIVE iterate_all(_)
iterate_directories(d) == <<d>> \o iterate_all(ChildDirs(d))
iterate_all(ds) ==
    IF ds = <<>> THEN <<>>
    ELSE iterate_directories(Head(ds)) \o iterate_all(Tail(ds))

\* The last part of a pattern: stem.kind, or stem.kind.* when wild.
Pattern(stem, kind, wild) == [stem |-> stem, kind |-> kind, wild |-> wild]

Matches(n, pat) ==
    IF pat.wild
    THEN Len(n) >= 3 /\ n[1] = pat.stem /\ n[2] = pat.kind
    ELSE n = <<pat.stem, pat.kind>>

\* The entries of directory d that match pat.
select_from(d, pat) ==
    LET names == SelectSeq(NameListing,
                     LAMBDA n : File(resolve(d), n) \in DOMAIN fs /\ Matches(n, pat))
    IN  [k \in 1..Len(names) |-> File(d, names[k])]

RECURSIVE select_all(_, _)
select_all(ds, pat) ==
    IF ds = <<>> THEN <<>>
    ELSE select_from(Head(ds), pat) \o select_all(Tail(ds), pat)

\* list(p.glob("**/" + pattern))
glob(p, pat) == select_all(iterate_directories(p), pat)

(***************************************************************************)
(* Discovery                                                               *)
(***************************************************************************)
\* content.split("\n")
RECURSIVE split(_)
split(s) ==
    IF \A k \in 1..Len(s) : s[k] # NL THEN <<s>>
    ELSE LET k == CHOOSE i \in 1..Len(s) :
                      s[i] = NL /\ \A j \in 1..(i - 1) : s[j] # NL
         IN  <<SubSeq(s, 1, k - 1)>> \o split(SubSeq(s, k + 1, Len(s)))

\* package.startswith("#")
startswith_hash(package) == package # <<>> /\ package[1] = "#"

\* A filter that drops the empty lines only.
keep_line_NoComments(package) == package # <<>>

\* if package and not package.startswith("#")
keep_line(package) == package # <<>> /\ ~startswith_hash(package)

\* Pattern lists that take the common lists in both passes.
pkglist_patterns_AlwaysCommon(cn, backports) ==
    <<Pattern("common", "pkglist", FALSE), Pattern(cn, "pkglist", FALSE)>>

\* The pattern lists of the two passes of get_package_list for one folder.
pkglist_patterns(cn, backports) ==
    (IF ~backports THEN <<Pattern("common", "pkglist", FALSE)>> ELSE <<>>)
    \o <<Pattern(cn, "pkglist", FALSE)>>

backports_codename(cn, backports) ==
    IF backports THEN cn \o "-backports" ELSE cn

\* lists_list, each file with the index of the folder it was found under.
lists_of_root(path_list, k, pats) ==
    LET found == Concat([j \in 1..Len(pats) |-> glob(path_list[k], pats[j])])
    IN  [j \in 1..Len(found) |-> [root |-> k, file |-> found[j]]]

\* Discovery pattern by pattern: every common list of every folder first.
lists_list_ByPattern(path_list, cn, backports) ==
    LET pats == pkglist_patterns(backports_codename(cn, backports), backports)
    IN  Concat([j \in 1..Len(pats) |->
                   Concat([k \in 1..Len(path_list) |->
                              lists_of_root(path_list, k, <<pats[j]>>)])])

lists_list(path_list, cn, backports) ==
    LET pats == pkglist_patterns(backports_codename(cn, backports), backports)
    IN  Concat([k \in 1..Len(path_list) |-> lists_of_root(path_list, k, pats)])

\* The entries one file contributes, each with its origin.
packages_of_list(l) ==
    LET lines == split(read_text(l.file))
        all == [j \in 1..Len(lines) |->
                   [pkg |-> lines[j], root |-> l.root, file |-> l.file, line |-> j]]
    IN  SelectSeq(all, LAMBDA e : keep_line(e.pkg))

get_package_list_src(path_list, cn, backports) ==
    LET ll == lists_list(path_list, cn, backports)
    IN  Concat([k \in 1..Len(ll) |-> packages_of_list(ll[k])])

get_package_list(path_list, cn, backports) ==
    LET src == get_package_list_src(path_list, cn, backports)
    IN  [k \in 1..Len(src) |-> src[k].pkg]

hook_patterns(cn, kind) ==
    <<Pattern("common", kind, TRUE), Pattern(cn, kind, TRUE)>>

hooks_of_root(p, pats) ==
    Concat([j \in 1..Len(pats) |-> glob(resolve(p), pats[j])])

\* q without the later occurrences of its elements.
RECURSIVE Dedup(_)
Dedup(q) ==
    IF q = <<>> THEN <<>>
    ELSE LET front == Dedup(SubSeq(q, 1, Len(q) - 1))
         IN  IF q[Len(q)] \in Range(front) THEN front ELSE Append(front, q[Len(q)])

\* A get_prehook_list that lists each hook once.
get_prehook_list_Unique(path_list, cn) ==
    Dedup(Concat([k \in 1..Len(path_list) |->
                     hooks_of_root(path_list[k], hook_patterns(cn, "prepkg"))]))

get_prehook_list(path_list, cn) ==
    Concat([k \in 1..Len(path_list) |->
               hooks_of_root(path_list[k], hook_patterns(cn, "prepkg"))])

\* A copy of get_prehook_list whose patterns were not changed.
get_posthook_list_PrePatterns(path_list, cn) ==
    Concat([k \in 1..Len(path_list) |->
               hooks_of_root(path_list[k], hook_patterns(cn, "prepkg"))])

get_posthook_list(path_list, cn) ==
    Concat([k \in 1..Len(path_list) |->
               hooks_of_root(path_list[k], hook_patterns(cn, "postpkg"))])

\* The glob calls of one discovery function, in call order.
glob_calls(path_list, pats) ==
    Concat([k \in 1..Len(path_list) |->
               [j \in 1..Len(pats) |-> [root |-> path_list[k], pattern |-> pats[j]]]])

discovery_glob_calls(path_list, cn) ==
    glob_calls(path_list, hook_patterns(cn, "prepkg"))
    \o glob_calls(path_list, pkglist_patterns(cn, FALSE))
    \o glob_calls(path_list, pkglist_patterns(backports_codename(cn, TRUE), TRUE))
    \o glob_calls(path_list, hook_patterns(cn, "postpkg"))

(***************************************************************************)
(* execute_subprocess                                                      *)
(***************************************************************************)
\* A command line: a hook path alone, or fixed words followed by package
\* names.
HookCmd(h) == [words |-> <<>>, hook |-> Some(h), pkgs |-> <<>>]
AptCmd(words, pkgs) == [words |-> words, hook |-> None, pkgs |-> pkgs]

\* One call of execute_subprocess: the stage of main() that made it, the
\* command, the env argument (None: the child inherits os.environ), how far
\* the call got and the return code of the child once it exited.
Call(stage, cmd, env, status, rc) ==
    [stage |-> stage, cmd |-> cmd, env |-> env, status |-> status, rc |-> rc]

\* Return codes a child can exit with.
ExitCodes == {0, 1, 2}

\* subprocess.run blocks in here while the child runs.
Running == log # <<>> /\ log[Len(log)].status = "running"

\* execute_subprocess returns: main() goes on after the call.
ReturnToMain ==
    /\ pc' = CASE pc = "update" -> "install"
               [] pc = "install" -> "backports"
               [] pc = "backports" -> "posthooks"
               [] OTHER -> pc
    /\ hook_idx' = CASE pc \in {"prehooks", "posthooks"} -> hook_idx + 1
                     [] pc = "backports" -> 1
                     [] OTHER -> hook_idx
    /\ UNCHANGED <<exit_status, raised>>

\* sys.exit(status), and an exception nobody catches.
sys_exit(status) ==
    /\ pc' = "failed"
    /\ exit_status' = Some(status)
    /\ UNCHANGED <<hook_idx, raised>>

Uncaught(e) ==
    /\ pc' = "failed"
    /\ exit_status' = Some(1)
    /\ raised' = Some(e)
    /\ UNCHANGED hook_idx

\* A handler that makes the refused call once more before it gives up.
OnPermissionError_RetryOnce ==
    IF log # <<>> /\ log[Len(log)].status = "denied"
    THEN ReturnToMain
    ELSE UNCHANGED <<pc, hook_idx, exit_status, raised>>

\* except PermissionError: print only.
OnPermissionError == ReturnToMain

\* A handler for CalledProcessError that prints and forgets to exit.
OnCalledProcessError_NoExit == ReturnToMain

\* except subprocess.CalledProcessError: print, then sys.exit(1).
OnCalledProcessError == sys_exit(1)

\* The program of the command is on the disk.
Present(cmd) == IF cmd.hook = None THEN TRUE ELSE OnDisk(cmd.hook[1]) \in DOMAIN fs

\* The call up to the point where the child runs or could not be started.
\* The system refuses to execute a directory: PermissionError; a file that
\* is no longer there gives FileNotFoundError, an OSError.
CanStart(cmd) ==
    IF cmd.hook = None THEN TRUE ELSE Present(cmd) /\ ~IsDir(cmd.hook[1])
CanFail(cmd) == IF Present(cmd) THEN CanStart(cmd) ELSE TRUE

execute_subprocess(cmd, env) ==
    /\ ~Running
    /\ \/ /\ CanStart(cmd)
          /\ log' = Append(log, Call(pc, cmd, env, "running", None))
          /\ UNCHANGED <<pc, hook_idx, exit_status, raised>>
       \/ /\ Present(cmd)
          /\ log' = Append(log, Call(pc, cmd, env, "denied", None))
          /\ OnPermissionError
       \/ /\ CanFail(cmd)
          /\ log' = Append(log, Call(pc, cmd, env, "oserror", None))
          /\ Uncaught(Raise("OSError", "exec"))

Plan == <<prehook_list, package_list, package_backport_list, posthook_list,
          package_src, backport_src, globbed, fs_seen>>
Inputs == <<os_release_file, argv_folders, fs, os_environ>>

\* env = os.environ.copy(); env["DEBIAN_FRONTEND"] = "noninteractive"
install_env == DictSet(os_environ, "DEBIAN_FRONTEND", "noninteractive")

\* What a child does to the files while it runs. A hook whose text is
\* WriterScript, and apt when it installs ShippingPackage, rewrite folder A:
\* they delete, create or modify package lists and hooks there. Every other
\* child leaves the files alone.
WriterScript == <<"#", "!", "w">>
ShippingPackage == <<"h">>

Remove(f, S) == [x \in (DOMAIN f) \ S |-> f[x]]
Create(f, g) == [x \in (DOMAIN f) \cup (DOMAIN g) |-> IF x \in DOMAIN g THEN g[x] ELSE f[x]]

Deleted ==
    {File(cwd \o <<"A">>, n) : n \in {<<"common", "pkglist">>, <<"common", "postpkg", "sh">>}}
Created ==
    [f \in {File(cwd \o <<"A">>, n) :
               n \in {<<"bookworm", "pkglist">>, <<"bookworm-backports", "pkglist">>,
                      <<"bookworm", "postpkg", "sh">>}} |-> <<"n">>]
Modified == [f \in {File(cwd \o <<"A">>, <<"common", "pkglist">>)} |-> <<"m">>]

Rewrites(f) ==
    {Remove(f, Deleted), Create(f, Created), Create(f, Modified),
     Create(Remove(f, Deleted), Created)}

Effects(cmd, f) ==
    IF cmd.hook # None
    THEN IF OnDisk(cmd.hook[1]) \in DOMAIN f
         THEN IF f[OnDisk(cmd.hook[1])] = WriterScript THEN Rewrites(f) ELSE {f}
         ELSE {f}
    ELSE IF ShippingPackage \in Range(cmd.pkgs) THEN Rewrites(f) ELSE {f}

\* The child exits: check=True raises CalledProcessError on a non-zero code.
ChildExit ==
    /\ Running
    /\ \E rc \in ExitCodes :
          /\ log' = [log EXCEPT ![Len(log)] =
                        Call(@.stage, @.cmd, @.env, "exited", Some(rc))]
          /\ IF rc = 0 THEN ReturnToMain ELSE OnCalledProcessError
    /\ fs' \in Effects(log[Len(log)].cmd, fs)
    /\ UNCHANGED <<os_release_file, argv_folders, os_environ, Plan, codename>>

(***************************************************************************)
(* main                                                                    *)
(***************************************************************************)
\* A main() that reports the failure and scans all the same.
GetCodename_GoesOn ==
    /\ pc = "start"
    /\ LET r == get_codename
       IN  /\ codename' = Some(r.value)
           /\ pc' = "discover"
           /\ raised' = IF r.tag = "return" THEN raised ELSE Some(r)
           /\ UNCHANGED exit_status
    /\ UNCHANGED <<Inputs, Plan, hook_idx, log>>

GetCodename ==
    /\ pc = "start"
    /\ LET r == get_codename
       IN  IF r.tag = "return"
           THEN /\ codename' = Some(r.value)
                /\ pc' = "discover"
                /\ UNCHANGED <<raised, exit_status>>
           ELSE /\ raised' = Some(r)
                /\ pc' = "failed"
                /\ exit_status' = Some(1)
                /\ UNCHANGED codename
    /\ UNCHANGED <<Inputs, Plan, hook_idx, log>>

Discover ==
    /\ pc = "discover"
    /\ prehook_list' = get_prehook_list(argv_folders, codename[1])
    /\ package_list' = get_package_list(argv_folders, codename[1], FALSE)
    /\ package_src' = get_package_list_src(argv_folders, codename[1], FALSE)
    /\ package_backport_list' = get_package_list(argv_folders, codename[1], TRUE)
    /\ backport_src' = get_package_list_src(argv_folders, codename[1], TRUE)
    /\ posthook_list' = get_posthook_list(argv_folders, codename[1])
    /\ globbed' = discovery_glob_calls(argv_folders, codename[1])
    /\ fs_seen' = fs
    /\ pc' = "prehooks"
    /\ hook_idx' = 1
    /\ UNCHANGED <<Inputs, codename, raised, log, exit_status>>

PreHooks ==
    /\ pc = "prehooks"
    /\ IF hook_idx <= Len(prehook_list)
       THEN execute_subprocess(HookCmd(prehook_list[hook_idx]), None)
       ELSE /\ ~Running
            /\ pc' = "update"
            /\ UNCHANGED <<hook_idx, log, exit_status, raised>>
    /\ UNCHANGED <<Inputs, Plan, codename>>

\* An update guarded by the package list alone.
UpdateDb_PackagesOnly ==
    /\ pc = "update"
    /\ IF package_list # <<>>
       THEN execute_subprocess(AptCmd(<<"apt", "update">>, <<>>), None)
       ELSE /\ pc' = "install"
            /\ UNCHANGED <<hook_idx, log, exit_status, raised>>
    /\ UNCHANGED <<Inputs, Plan, codename>>

UpdateDb ==
    /\ pc = "update"
    /\ IF package_list # <<>> \/ package_backport_list # <<>>
       THEN execute_subprocess(AptCmd(<<"apt", "update">>, <<>>), None)
       ELSE /\ pc' = "install"
            /\ UNCHANGED <<hook_idx, log, exit_status, raised>>
    /\ UNCHANGED <<Inputs, Plan, codename>>

\* The names without their repetitions, first occurrences kept.
\* An install that passes each name once.
Install_Dedup ==
    /\ pc = "install"
    /\ IF package_list # <<>>
       THEN execute_subprocess(AptCmd(<<"apt", "install", "-y">>, Dedup(package_list)),
                               Some(install_env))
       ELSE /\ pc' = "backports"
            /\ UNCHANGED <<hook_idx, log, exit_status, raised>>
    /\ UNCHANGED <<Inputs, Plan, codename>>

\* An install that scans the folders again for its package list.
Install_Rescan ==
    /\ pc = "install"
    /\ package_list' = get_package_list(argv_folders, codename[1], FALSE)
    /\ IF package_list' # <<>>
       THEN execute_subprocess(AptCmd(<<"apt", "install", "-y">>, package_list'),
                               Some(install_env))
       ELSE /\ pc' = "backports"
            /\ UNCHANGED <<hook_idx, log, exit_status, raised>>
    /\ UNCHANGED <<Inputs, codename, prehook_list, package_backport_list, posthook_list,
                   package_src, backport_src, globbed, fs_seen>>

\* An install that sets the flag in os.environ itself and passes that.
Install_NoCopy ==
    /\ pc = "install"
    /\ IF package_list # <<>>
       THEN /\ os_environ' = install_env
            /\ execute_subprocess(AptCmd(<<"apt", "install", "-y">>, package_list),
                                  Some(install_env))
       ELSE /\ pc' = "backports"
            /\ UNCHANGED <<os_environ, hook_idx, log, exit_status, raised>>
    /\ UNCHANGED <<os_release_file, argv_folders, fs, Plan, codename>>

Install ==
    /\ pc = "install"
    /\ IF package_list # <<>>
       THEN execute_subprocess(AptCmd(<<"apt", "install", "-y">>, package_list),
                               Some(install_env))
       ELSE /\ pc' = "backports"
            /\ UNCHANGED <<hook_idx, log, exit_status, raised>>
    /\ UNCHANGED <<Inputs, Plan, codename>>

InstallBackports ==
    /\ pc = "backports"
    /\ IF package_backport_list # <<>>
       THEN execute_subprocess(
                AptCmd(<<"apt", "install", "-t", codename[1] \o "-backports", "-y">>,
                       package_backport_list),
                Some(install_env))
       ELSE /\ pc' = "posthooks"
            /\ hook_idx' = 1
            /\ UNCHANGED <<log, exit_status, raised>>
    /\ UNCHANGED <<Inputs, Plan, codename>>

\* Post-hooks nested under the package test.
PostHooks_NeedPackages ==
    /\ pc = "posthooks"
    /\ IF hook_idx <= Len(posthook_list) /\ package_list # <<>>
       THEN execute_subprocess(HookCmd(posthook_list[hook_idx]), None)
       ELSE /\ ~Running
            /\ pc' = "done"
            /\ exit_status' = Some(0)
            /\ UNCHANGED <<hook_idx, log, raised>>
    /\ UNCHANGED <<Inputs, Plan, codename>>

PostHooks ==
    /\ pc = "posthooks"
    /\ IF hook_idx <= Len(posthook_list)
       THEN execute_subprocess(HookCmd(posthook_list[hook_idx]), None)
       ELSE /\ ~Running
            /\ pc' = "done"
            /\ exit_status' = Some(0)
            /\ UNCHANGED <<hook_idx, log, raised>>
    /\ UNCHANGED <<Inputs, Plan, codename>>

(***************************************************************************)
(* Initial states                                                          *)
(***************************************************************************)
Ids == {"debian", "ubuntu", "arch"}
VersionIds == {"9", "10", "11", "12", "13", "20.04", "22.04"}

OsReleaseFiles ==
    {None, Some(<<>>)}
    \cup {Some(<<OsLine("ID", i)>>) : i \in Ids}
    \cup {Some(<<OsLine("VERSION_ID", v)>>) : v \in VersionIds}
    \cup {Some(<<OsLine("ID", i), OsLine("VERSION_ID", v)>>) :
             i \in Ids, v \in VersionIds}
    \cup {Some(<<OsLine("ID", i), OsLine("ID", j)>>) : i, j \in Ids}

Bookworm == Some(<<OsLine("ID", "debian"), OsLine("VERSION_ID", "12")>>)

Comment == <<"#", "c">>
DefaultContent(n) ==
    CASE n = <<"common", "pkglist">> -> <<"a", NL, NL>> \o Comment \o <<NL, "b">>
      [] n = <<"bookworm", "pkglist">> -> <<"c">>
      [] n = <<"bookworm-backports", "pkglist">> -> <<"d", NL>>
      [] n = <<"buster", "pkglist">> -> <<"e", NL, "f">>
      [] OTHER -> <<"#", "!">>

CandFiles == {File(cwd \o d, n) : d \in Range(DirListing), n \in FileNames}

Layout(S) == [f \in S |-> DefaultContent(f.name)]

\* Every layout of at most MaxFiles files.
SmallLayouts == {Layout(Range(s)) : s \in SeqsUpTo(CandFiles, MaxFiles)}

\* A folder that holds one file of every name.
RichLayout == Layout({File(cwd \o <<"A">>, n) : n \in FileNames})

\* A folder with a directory named like a hook, a hook and a package list.
HookDirLayout ==
    Layout({File(cwd \o <<"A">>, n) :
               n \in {<<"common", "prepkg", "d">>, <<"bookworm", "prepkg", "py">>,
                      <<"common", "pkglist">>}})

\* Every directory holds one package list of every name, and nothing else.
ListsLayout ==
    Layout({f \in CandFiles : Len(f.name) = 2})

\* One package list of arbitrary content.
Alphabet == {"a", "#", " ", NL}
ContentLayouts ==
    {[f \in {File(cwd \o <<"A">>, <<"common", "pkglist">>)} |-> c] :
        c \in SeqsUpTo(Alphabet, MaxContentLen)}

\* A pre-hook that rewrites the folder, and a list that names a package
\* whose installation rewrites it.
ScriptLayout ==
    [f \in {File(cwd \o <<"A">>, n) :
               n \in {<<"common", "prepkg", "sh">>, <<"common", "pkglist">>,
                      <<"common", "postpkg", "sh">>}} |->
        IF f.name = <<"common", "prepkg", "sh">> THEN WriterScript
        ELSE DefaultContent(f.name)]
ShippingLayout ==
    [f \in {File(cwd \o <<"A">>, n) :
               n \in {<<"common", "pkglist">>, <<"common", "postpkg", "sh">>}} |->
        IF f.name = <<"common", "pkglist">> THEN ShippingPackage
        ELSE DefaultContent(f.name)]

\* The folder arguments: two folders apart, a folder and one inside it, one
\* folder, one folder twice.
SeveralFolders == { << <<"A">>, <<"B">> >>, << <<"A", "x">>, <<"A">> >> }
FolderLists == SeveralFolders \cup { << <<"A">> >>, << <<"A">>, <<"A">> >> }

\* Environments of the program: without and with a frontend of its own.
PlainEnviron == [x \in {"PATH"} |-> "/usr/bin"]
Environs == {PlainEnviron, DictSet(PlainEnviron, "DEBIAN_FRONTEND", "dialog")}

Init ==
    /\ \/ /\ os_release_file \in OsReleaseFiles
          /\ fs = RichLayout
          /\ argv_folders = << <<"A">> >>
          /\ os_environ = PlainEnviron
       \/ /\ os_release_file = Bookworm
          /\ fs \in SmallLayouts
          /\ argv_folders \in SeveralFolders
          /\ os_environ = PlainEnviron
       \/ /\ os_release_file = Bookworm
          /\ fs \in {RichLayout, ListsLayout, HookDirLayout}
          /\ argv_folders \in FolderLists
          /\ os_environ = PlainEnviron
       \/ /\ os_release_file = Bookworm
          /\ fs \in ContentLayouts
          /\ argv_folders = << <<"A">> >>
          /\ os_environ = PlainEnviron
       \/ /\ os_release_file = Bookworm
          /\ fs = RichLayout
          /\ argv_folders = << <<"A">> >>
          /\ os_environ \in Environs
       \/ /\ os_release_file = Bookworm
          /\ fs \in {ScriptLayout, ShippingLayout}
          /\ argv_folders = << <<"A">> >>
          /\ os_environ = PlainEnviron
    /\ fs_seen = fs
    /\ pc = "start"
    /\ codename = None
    /\ raised = None
    /\ prehook_list = <<>>
    /\ package_list = <<>>
    /\ package_backport_list = <<>>
    /\ posthook_list = <<>>
    /\ package_src = <<>>
    /\ backport_src = <<>>
    /\ globbed = <<>>
    /\ hook_idx = 1
    /\ log = <<>>
    /\ exit_status = None

Next ==
    \/ GetCodename
    \/ Discover
    \/ PreHooks
    \/ UpdateDb
    \/ Install
    \/ InstallBackports
    \/ PostHooks
    \/ ChildExit

Spec == Init /\ [][Next]_vars

\* main() is the only thread and runs whenever it is not blocked in
\* subprocess.run; every child that was started terminates. The scan of the
\* folders is the one step that leaves pc = "discover", and it is enabled
\* whenever pc = "discover": Scanned states its fairness by that.
Scanned == pc = "discover" /\ pc' = "prehooks"

MainFairness ==
    /\ WF_vars(GetCodename)
    /\ WF_pc(Scanned)
    /\ WF_vars(PreHooks)
    /\ WF_vars(UpdateDb)
    /\ WF_vars(Install)
    /\ WF_vars(InstallBackports)
    /\ WF_vars(PostHooks)

FairSpec == Spec /\ MainFairness /\ WF_vars(ChildExit)

(***************************************************************************)
(* Vocabulary of the properties                                            *)
(***************************************************************************)
LogIdx == 1..Len(log)
Last == log[Len(log)]

ExitedWith(k, rc) == log[k].status = "exited" /\ log[k].rc = Some(rc)
NonZeroExit(k) == log[k].status = "exited" /\ log[k].rc # Some(0)
Denied(k) == log[k].status = "denied"

IsUpdate(k) == log[k].cmd.words = <<"apt", "update">>
IsInstall(k) == log[k].cmd.words = <<"apt", "install", "-y">>
IsBackportsInstall(k) ==
    Len(log[k].cmd.words) = 5 /\ SubSeq(log[k].cmd.words, 1, 3) = <<"apt", "install", "-t">>
IsApt(k) == log[k].cmd.hook = None
IsHook(k) == log[k].cmd.hook # None

Discovered == pc \notin {"start", "discover"} /\ codename # None
Exited == exit_status # None

\* The calls a discovered plan makes when nothing stops it.
DueCmds ==
    [k \in 1..Len(prehook_list) |-> HookCmd(prehook_list[k])]
    \o (IF package_list # <<>> \/ package_backport_list # <<>>
        THEN <<AptCmd(<<"apt", "update">>, <<>>)>> ELSE <<>>)
    \o (IF package_list # <<>>
        THEN <<AptCmd(<<"apt", "install", "-y">>, package_list)>> ELSE <<>>)
    \o (IF package_backport_list # <<>>
        THEN <<AptCmd(<<"apt", "install", "-t", codename[1] \o "-backports", "-y">>,
                      package_backport_list)>>
        ELSE <<>>)
    \o [k \in 1..Len(posthook_list) |-> HookCmd(posthook_list[k])]

(***************************************************************************)
(* C1: once a started child has exited with a non-zero code, no further    *)
(* hook or apt call is made (the failed call stays the last of the run)    *)
(* and the program has terminated with a non-zero exit status.             *)
(***************************************************************************)
C1_FailFast ==
    \A k \in LogIdx :
        NonZeroExit(k) =>
            /\ k = Len(log)
            /\ pc = "failed"
            /\ Exited /\ exit_status[1] # 0

\* A pre-hook exited with status 2 while packages, backports and post-hooks
\* were all due.
C1_Witness ==
    /\ log # <<>>
    /\ Last.stage = "prehooks" /\ ExitedWith(Len(log), 2)
    /\ package_list # <<>> /\ package_backport_list # <<>> /\ posthook_list # <<>>
    /\ pc = "failed"

(***************************************************************************)
(* C2: a call that could not be launched for lack of permission is the     *)
(* last call of the run: no later hook or apt call is started.             *)
(***************************************************************************)
C2_DeniedHalts ==
    \A k \in LogIdx : Denied(k) => k = Len(log)

(***************************************************************************)
(* C3: the program exits with status 0 only if every call due by the plan  *)
(* was launched and exited with code 0.                                    *)
(***************************************************************************)
C3_ExitZeroFullSuccess ==
    (Exited /\ exit_status[1] = 0) =>
        /\ [k \in LogIdx |-> log[k].cmd] = DueCmds
        /\ \A k \in LogIdx : ExitedWith(k, 0)

(***************************************************************************)
(* C4: the calls are made in the order pre-hooks, apt update, apt install, *)
(* backports install, post-hooks, hooks in the order of their lists; a     *)
(* call is made only once the previous child has terminated; apt update is *)
(* called only after every pre-hook exited with 0; a post-hook is called   *)
(* only after every due apt call exited with 0.                            *)
(***************************************************************************)
StageRank(st) ==
    CASE st = "prehooks" -> 1
      [] st = "update" -> 2
      [] st = "install" -> 3
      [] st = "backports" -> 4
      [] st = "posthooks" -> 5

DueAptCmds == {DueCmds[k] : k \in {j \in 1..Len(DueCmds) : DueCmds[j].hook = None}}

PostHooksBefore(k) == Cardinality({i \in 1..(k - 1) : log[i].stage = "posthooks"})

C4_StageOrder ==
    /\ \A i, j \in LogIdx : i < j => StageRank(log[i].stage) <= StageRank(log[j].stage)
    /\ \A k \in LogIdx :
          /\ log[k].stage = "prehooks" => log[k].cmd = HookCmd(prehook_list[k])
          /\ log[k].stage = "update" => IsUpdate(k)
          /\ log[k].stage = "install" => IsInstall(k)
          /\ log[k].stage = "backports" => IsBackportsInstall(k)
          /\ log[k].stage = "posthooks" =>
                log[k].cmd = HookCmd(posthook_list[PostHooksBefore(k) + 1])
    /\ \A k \in LogIdx : k < Len(log) => log[k].status # "running"
    /\ \A k \in LogIdx :
          IsUpdate(k) => /\ k = Len(prehook_list) + 1
                         /\ \A i \in 1..(k - 1) : ExitedWith(i, 0)
    /\ \A k \in LogIdx :
          log[k].stage = "posthooks" =>
              \A c \in DueAptCmds :
                  \E i \in 1..(k - 1) : log[i].cmd = c /\ ExitedWith(i, 0)

(***************************************************************************)
(* C5: apt update is called at most once; once the run is past the update  *)
(* stage (it was not halted during the pre-hooks) it has been called       *)
(* exactly once if packages or backport packages were found and not at all *)
(* otherwise; every apt install call has an apt update call before it.     *)
(***************************************************************************)
Updates == {k \in LogIdx : IsUpdate(k)}

HaltedInPreHooks == pc = "failed" /\ log # <<>> /\ Last.stage = "prehooks"

PastUpdate ==
    /\ pc \in {"install", "backports", "posthooks", "done", "failed"}
    /\ ~HaltedInPreHooks

C5_UpdateOnce ==
    /\ Cardinality(Updates) <= 1
    /\ PastUpdate =>
          Cardinality(Updates) =
              IF package_list # <<>> \/ package_backport_list # <<>> THEN 1 ELSE 0
    /\ \A k \in LogIdx :
          (IsInstall(k) \/ IsBackportsInstall(k)) => \E i \in 1..(k - 1) : IsUpdate(i)

\* A finished run that updated once and then installed from backports only.
C5_Witness ==
    /\ pc = "done"
    /\ package_list = <<>>
    /\ \E i, k \in LogIdx :
          /\ i < k
          /\ IsUpdate(i) /\ ExitedWith(i, 0)
          /\ IsBackportsInstall(k) /\ ExitedWith(k, 0)

(***************************************************************************)
(* C6: when no package and no backport package is found, apt is never      *)
(* called, and a run that no failure stops calls every pre-hook and every  *)
(* post-hook, once each and in order; a hook whose launch is not denied    *)
(* runs.                                                                   *)
(***************************************************************************)
NothingToInstall == Discovered /\ package_list = <<>> /\ package_backport_list = <<>>

C6_HooksOnly ==
    NothingToInstall =>
        /\ \A k \in LogIdx : IsHook(k)
        /\ pc = "done" =>
              /\ [k \in LogIdx |-> log[k].cmd] =
                    [k \in 1..Len(prehook_list) |-> HookCmd(prehook_list[k])]
                    \o [k \in 1..Len(posthook_list) |-> HookCmd(posthook_list[k])]
              /\ \A k \in LogIdx : ExitedWith(k, 0) \/ Denied(k)

\* A finished run with a pre-hook and a post-hook, both run, and no package.
C6_Witness ==
    /\ NothingToInstall
    /\ pc = "done"
    /\ prehook_list # <<>> /\ posthook_list # <<>>
    /\ \A k \in LogIdx : ExitedWith(k, 0)

(***************************************************************************)
(* C7: for an os-release file that gives both ID and VERSION_ID,           *)
(* get_codename returns the codename of the table for the five pairs of    *)
(* the table and fails, returning nothing, for every other pair.           *)
(***************************************************************************)
CodenameTable ==
    <<"debian", "9">> :> "stretch" @@ <<"debian", "10">> :> "buster"
    @@ <<"debian", "11">> :> "bullseye" @@ <<"debian", "12">> :> "bookworm"
    @@ <<"ubuntu", "20.04">> :> "focal"

HasIdAndVersion == {"ID", "VERSION_ID"} \subseteq DOMAIN parse_os_release
IdAndVersion == <<parse_os_release["ID"], parse_os_release["VERSION_ID"]>>

C7_CodenameTable ==
    (pc # "start" /\ HasIdAndVersion) =>
        IF IdAndVersion \in DOMAIN CodenameTable
        THEN codename = Some(CodenameTable[IdAndVersion]) /\ raised = None
        ELSE codename = None /\ raised # None

(***************************************************************************)
(* C8: when get_codename fails, the program has exited with a non-zero     *)
(* status, no folder has been scanned and no hook or apt call was made.    *)
(***************************************************************************)
ResolutionFailed == pc # "start" /\ get_codename.tag = "raise"

C8_ResolutionFatal ==
    ResolutionFailed =>
        /\ pc = "failed"
        /\ Exited /\ exit_status[1] # 0
        /\ globbed = <<>>
        /\ log = <<>>

\* An unsupported distribution on a machine whose folder holds hooks and
\* package lists.
C8_Witness ==
    /\ ResolutionFailed
    /\ raised # None /\ raised[1].exc = "RuntimeError"
    /\ fs_seen = RichLayout
    /\ pc = "failed"

(***************************************************************************)
(* C9: the lines of a text, and what one visit of a package list gives.    *)
(***************************************************************************)
\* The positions that delimit the lines of a text: 0, every newline, and
\* the position after the last character.
Delims(c) == {0, Len(c) + 1} \cup {k \in 1..Len(c) : c[k] = NL}
Delim(c, j) == CHOOSE b \in Delims(c) : Cardinality({x \in Delims(c) : x < b}) = j - 1
LinesOf(c) ==
    [j \in 1..(Cardinality(Delims(c)) - 1) |->
        SubSeq(c, Delim(c, j) + 1, Delim(c, j + 1) - 1)]

Whitespace == {" ", "\t"}
FirstIsHash(l) == l # <<>> /\ l[1] = "#"
FirstNonBlankIsHash(l) ==
    \E k \in 1..Len(l) : l[k] = "#" /\ \A j \in 1..(k - 1) : l[j] \in Whitespace

\* The package lists the non-backports pass reads under folder number r.
UnderRoot(f, r) == IsPrefix(resolve(argv_folders[r]), f.dir)
MatchedLists(r) ==
    {f \in DOMAIN fs_seen : /\ UnderRoot(f, r)
                       /\ f.name \in {<<"common", "pkglist">>, <<codename[1], "pkglist">>}}

\* What the visit of file f under folder number r added to package_list.
Contribution(r, f) ==
    LET es == SelectSeq(package_src, LAMBDA e : e.root = r /\ OnDisk(e.file) = f)
    IN  [k \in 1..Len(es) |-> es[k].pkg]

SrcAgrees ==
    /\ Len(package_src) = Len(package_list)
    /\ \A k \in 1..Len(package_list) : package_src[k].pkg = package_list[k]

(***************************************************************************)
(* C9 as claimed: every matched list contributes exactly its non-empty     *)
(* lines whose first non-whitespace character is not #, in file order.     *)
(***************************************************************************)
C9_FirstNonBlank ==
    Discovered =>
        /\ SrcAgrees
        /\ \A r \in 1..Len(argv_folders) : \A f \in MatchedLists(r) :
              Contribution(r, f) =
                  SelectSeq(LinesOf(fs_seen[f]), LAMBDA l : l # <<>> /\ ~FirstNonBlankIsHash(l))

(***************************************************************************)
(* C9 as amended: every matched list contributes exactly its non-empty     *)
(* lines whose first character is not #, in file order and verbatim.       *)
(***************************************************************************)
C9_FirstChar ==
    Discovered =>
        /\ SrcAgrees
        /\ \A r \in 1..Len(argv_folders) : \A f \in MatchedLists(r) :
              Contribution(r, f) =
                  SelectSeq(LinesOf(fs_seen[f]), LAMBDA l : l # <<>> /\ ~FirstIsHash(l))

\* A list with a comment line, which is dropped, and an indented # line,
\* which is kept.
C9_Witness ==
    /\ Discovered
    /\ \E f \in MatchedLists(1) :
          /\ \E j \in 1..Len(LinesOf(fs_seen[f])) : FirstIsHash(LinesOf(fs_seen[f])[j])
          /\ \E j \in 1..Len(LinesOf(fs_seen[f])) :
                /\ ~FirstIsHash(LinesOf(fs_seen[f])[j])
                /\ FirstNonBlankIsHash(LinesOf(fs_seen[f])[j])
                /\ Contribution(1, f) = <<LinesOf(fs_seen[f])[j]>>

(***************************************************************************)
(* C10: package_list is ordered by folder, in the order the folders were   *)
(* given; within one folder the entries of common.pkglist files come       *)
(* before those of <codename>.pkglist files; the entries of one file keep  *)
(* their order and are contiguous.  common = [a, "", #c, b] with           *)
(* bookworm = [c] gives [a, b, c].                                         *)
(***************************************************************************)
SameVisit(i, j) ==
    package_src[i].root = package_src[j].root /\ package_src[i].file = package_src[j].file

ExampleLayout ==
    Layout({File(cwd \o <<"A">>, <<"common", "pkglist">>),
            File(cwd \o <<"A">>, <<"bookworm", "pkglist">>)})

C10_PackageOrder ==
    Discovered =>
        /\ SrcAgrees
        /\ \A i, j \in 1..Len(package_src) :
              i < j =>
                  /\ package_src[i].root <= package_src[j].root
                  /\ package_src[i].root = package_src[j].root =>
                        ~(/\ package_src[i].file.name = <<codename[1], "pkglist">>
                          /\ package_src[j].file.name = <<"common", "pkglist">>)
                  /\ SameVisit(i, j) =>
                        /\ package_src[i].line < package_src[j].line
                        /\ \A k \in i..j : SameVisit(i, k)
        /\ (fs_seen = ExampleLayout /\ argv_folders = << <<"A">> >> /\ codename = Some("bookworm"))
              => package_list = << <<"a">>, <<"b">>, <<"c">> >>

\* Two folders that both contribute, the first one from a common list (two
\* entries) and from a codename list.
C10_Witness ==
    /\ Discovered
    /\ \E i, j, k \in 1..Len(package_src) :
          /\ i < j /\ j < k
          /\ SameVisit(i, j) /\ package_src[i].file.name = <<"common", "pkglist">>
          /\ package_src[k].root = package_src[i].root
          /\ package_src[k].file.name = <<codename[1], "pkglist">>
    /\ \E i, j \in 1..Len(package_src) : package_src[i].root < package_src[j].root

(***************************************************************************)
(* C11: the backports pass yields exactly the kept lines of the files      *)
(* named <codename>-backports.pkglist, the other pass reads only           *)
(* common.pkglist and <codename>.pkglist files, and so every name given to *)
(* the plain apt install is a line of one of those, while the names of the *)
(* backports lists go to the apt install -t <codename>-backports call.     *)
(***************************************************************************)
BackportsName == <<codename[1] \o "-backports", "pkglist">>

MatchedBackports(r) ==
    {f \in DOMAIN fs_seen : UnderRoot(f, r) /\ f.name = BackportsName}

BackportContribution(r, f) ==
    LET es == SelectSeq(backport_src, LAMBDA e : e.root = r /\ OnDisk(e.file) = f)
    IN  [k \in 1..Len(es) |-> es[k].pkg]

LinesOfPlainLists ==
    UNION {Range(LinesOf(fs_seen[f])) :
              f \in UNION {MatchedLists(r) : r \in 1..Len(argv_folders)}}

C11_BackportsApart ==
    Discovered =>
        /\ Len(backport_src) = Len(package_backport_list)
        /\ \A k \in 1..Len(backport_src) :
              /\ backport_src[k].pkg = package_backport_list[k]
              /\ backport_src[k].file.name = BackportsName
        /\ \A r \in 1..Len(argv_folders) : \A f \in MatchedBackports(r) :
              BackportContribution(r, f) =
                  SelectSeq(LinesOf(fs_seen[f]), LAMBDA l : l # <<>> /\ ~FirstIsHash(l))
        /\ \A k \in 1..Len(package_src) : package_src[k].file.name # BackportsName
        /\ \A k \in LogIdx :
              /\ IsInstall(k) => Range(log[k].cmd.pkgs) \subseteq LinesOfPlainLists
              /\ IsBackportsInstall(k) =>
                    /\ log[k].cmd.pkgs = package_backport_list
                    /\ log[k].cmd.words[4] = codename[1] \o "-backports"

\* Both installs ran; d, listed in the backports list only, went to the
\* second one alone.
C11_Witness ==
    /\ Discovered
    /\ package_backport_list = << <<"d">> >>
    /\ <<"d">> \notin Range(package_list)
    /\ \E i, k \in LogIdx :
          /\ IsInstall(i) /\ ExitedWith(i, 0)
          /\ IsBackportsInstall(k) /\ ExitedWith(k, 0)

(***************************************************************************)
(* C12, amended to the entries of any kind, directories included:          *)
(* prehook_list holds exactly the entries under the folders named          *)
(* common.prepkg.* or <codename>.prepkg.*, posthook_list exactly those     *)
(* named common.postpkg.* or <codename>.postpkg.*; nothing is in both; the *)
(* lists go folder by folder in the order given, common hooks before       *)
(* codename hooks within a folder; the pre-hook stage runs pre-hooks only, *)
(* and no hook of another codename is ever run.                            *)
(***************************************************************************)
HookNamed(n, kind) == Len(n) >= 3 /\ n[2] = kind /\ n[1] \in {"common", codename[1]}

HooksOnDisk(kind) ==
    {f \in DOMAIN fs_seen : /\ HookNamed(f.name, kind)
                       /\ \E r \in 1..Len(argv_folders) : UnderRoot(f, r)}

\* hooks can be cut into one run per folder, in the order of the folders,
\* each entry under its folder and common hooks first within a folder.
FolderByFolder(hooks) ==
    \E g \in [1..Len(hooks) -> 1..Len(argv_folders)] :
        /\ \A k \in 1..Len(hooks) : UnderRoot(OnDisk(hooks[k]), g[k])
        /\ \A i, j \in 1..Len(hooks) :
              i < j =>
                  /\ g[i] <= g[j]
                  /\ ~(g[i] = g[j] /\ hooks[i] = hooks[j])
                  /\ g[i] = g[j] => ~(hooks[i].name[1] # "common" /\ hooks[j].name[1] = "common")

HookOrderAndStages ==
        /\ Range(prehook_list) \cap Range(posthook_list) = {}
        /\ \A k \in 1..Len(prehook_list) : IsAbsolute(prehook_list[k].dir)
        /\ \A k \in 1..Len(posthook_list) : IsAbsolute(posthook_list[k].dir)
        /\ FolderByFolder(prehook_list)
        /\ FolderByFolder(posthook_list)
        /\ \A k \in LogIdx :
              /\ log[k].stage = "prehooks" =>
                    IsHook(k) /\ HookNamed(log[k].cmd.hook[1].name, "prepkg")
              /\ log[k].stage = "posthooks" =>
                    IsHook(k) /\ HookNamed(log[k].cmd.hook[1].name, "postpkg")
              /\ IsHook(k) => log[k].stage \in {"prehooks", "posthooks"}

C12_HookClasses ==
    Discovered =>
        /\ Range(prehook_list) = HooksOnDisk("prepkg")
        /\ Range(posthook_list) = HooksOnDisk("postpkg")
        /\ HookOrderAndStages

(***************************************************************************)
(* C12 as claimed: the same, the two lists holding the regular files of    *)
(* these names and nothing else.                                           *)
(***************************************************************************)
C12_FilesOnly ==
    Discovered =>
        /\ Range(prehook_list) = {f \in HooksOnDisk("prepkg") : ~IsDir(f)}
        /\ Range(posthook_list) = {f \in HooksOnDisk("postpkg") : ~IsDir(f)}
        /\ HookOrderAndStages

\* A finished run over a folder with a common and a codename pre-hook, a
\* post-hook and a hook of another codename, which was left alone.
C12_Witness ==
    /\ Discovered /\ pc = "done"
    /\ \E i, j \in 1..Len(prehook_list) :
          /\ i < j
          /\ prehook_list[i].name = <<"common", "prepkg", "sh">>
          /\ prehook_list[j].name = <<codename[1], "prepkg", "py">>
    /\ posthook_list # <<>>
    /\ \E f \in DOMAIN fs_seen :
          /\ Len(f.name) = 3 /\ f.name[1] \notin {"common", codename[1]}
          /\ UnderRoot(f, 1)
    /\ \A k \in LogIdx : ExitedWith(k, 0)

(***************************************************************************)
(* C13: a run that is past the install stage with a non-empty package_list *)
(* has made exactly one plain apt install call, no run makes more than     *)
(* one, and its names are package_list itself: same length, same order,    *)
(* repetitions kept.  The same holds of the backports install and          *)
(* package_backport_list.                                                  *)
(***************************************************************************)
Installs == {k \in LogIdx : IsInstall(k)}
BackportsInstalls == {k \in LogIdx : IsBackportsInstall(k)}

PastInstall ==
    \/ pc \in {"backports", "posthooks", "done"}
    \/ /\ pc \in {"install", "failed"}
       /\ log # <<>>
       /\ Last.stage \in {"install", "backports", "posthooks"}

C13_OneInstall ==
    /\ Cardinality(Installs) <= 1
    /\ Cardinality(BackportsInstalls) <= 1
    /\ (PastInstall /\ package_list # <<>>) => Cardinality(Installs) = 1
    /\ \A k \in Installs :
          /\ log[k].cmd.pkgs = package_list
          /\ log[k].cmd.pkgs # <<>>
    /\ \A k \in BackportsInstalls :
          /\ log[k].cmd.pkgs = package_backport_list
          /\ log[k].cmd.pkgs # <<>>

\* A finished run whose single install was given a name twice.
C13_Witness ==
    /\ pc = "done"
    /\ \E k \in Installs :
          /\ ExitedWith(k, 0)
          /\ \E i, j \in 1..Len(log[k].cmd.pkgs) :
                i < j /\ log[k].cmd.pkgs[i] = log[k].cmd.pkgs[j]

(***************************************************************************)
(* C14: no step changes os.environ; the env argument of the plain and of   *)
(* the backports install call is os.environ with DEBIAN_FRONTEND set to    *)
(* noninteractive and every other variable as in os.environ.               *)
(***************************************************************************)
InstallEnvOk(k) ==
    /\ log[k].env # None
    /\ LET e == log[k].env[1]
       IN  /\ DOMAIN e = DOMAIN os_environ \cup {"DEBIAN_FRONTEND"}
           /\ e["DEBIAN_FRONTEND"] = "noninteractive"
           /\ \A x \in DOMAIN os_environ \ {"DEBIAN_FRONTEND"} : e[x] = os_environ[x]

C14_EnvFrame ==
    /\ [](\A k \in LogIdx : (IsInstall(k) \/ IsBackportsInstall(k)) => InstallEnvOk(k))
    /\ [][os_environ' = os_environ]_vars

\* Both installs ran with the flag while the program keeps the frontend it
\* was started with.
C14_Witness ==
    /\ pc = "done"
    /\ "DEBIAN_FRONTEND" \in DOMAIN os_environ
    /\ os_environ["DEBIAN_FRONTEND"] = "dialog"
    /\ \E i, k \in LogIdx :
          /\ IsInstall(i) /\ ExitedWith(i, 0) /\ InstallEnvOk(i)
          /\ IsBackportsInstall(k) /\ ExitedWith(k, 0) /\ InstallEnvOk(k)

(***************************************************************************)
(* C15: the four lists are empty until the codename is resolved and the    *)
(* folders are scanned, no call is made before that, and no later step     *)
(* changes them; the install calls carry the lists and the post-hook calls *)
(* follow the post-hook list as built, whatever the children did to the    *)
(* package lists and hooks on the disk meanwhile.                          *)
(***************************************************************************)
Lists == <<prehook_list, package_list, package_backport_list, posthook_list>>

PlanUsed ==
    \A k \in LogIdx :
        /\ IsInstall(k) => log[k].cmd.pkgs = package_list
        /\ IsBackportsInstall(k) => log[k].cmd.pkgs = package_backport_list
        /\ log[k].stage = "posthooks" =>
              log[k].cmd = HookCmd(posthook_list[PostHooksBefore(k) + 1])

C15_PlanBuiltOnce ==
    /\ [](pc \in {"start", "discover"} => Lists = <<<<>>, <<>>, <<>>, <<>>>> /\ log = <<>>)
    /\ [](pc = "discover" => codename # None)
    /\ [][pc \notin {"start", "discover"} => Lists' = Lists]_vars
    /\ []PlanUsed

\* A run that ended well although a scan of the folders at its end would
\* give other packages, other backports and other post-hooks than those it
\* installed and ran.
C15_Witness ==
    /\ pc = "done"
    /\ \A k \in LogIdx : ExitedWith(k, 0)
    /\ get_package_list(argv_folders, codename[1], FALSE) # package_list
    /\ get_package_list(argv_folders, codename[1], TRUE) # package_backport_list
    /\ get_posthook_list(argv_folders, codename[1]) # posthook_list
    /\ \E k \in LogIdx : IsInstall(k) /\ log[k].cmd.pkgs = package_list
    /\ \E k \in LogIdx : log[k].stage = "posthooks" /\ log[k].cmd = HookCmd(posthook_list[1])
    /\ PlanUsed

(***************************************************************************)
(* C16: with ID debian and no VERSION_ID in /etc/os-release, get_codename  *)
(* returns bookworm and the program goes on to its calls: it does not fail *)
(* before it has made one.                                                 *)
(***************************************************************************)
DebianNoVersion ==
    /\ "ID" \in DOMAIN parse_os_release
    /\ parse_os_release["ID"] = "debian"
    /\ "VERSION_ID" \notin DOMAIN parse_os_release

C16_DebianDefault ==
    (pc # "start" /\ DebianNoVersion) =>
        /\ get_codename = Return("bookworm")
        /\ codename = Some("bookworm")
        /\ pc = "failed" => log # <<>>

\* Such a machine ran to its end and asked for the bookworm backports.
C16_Witness ==
    /\ DebianNoVersion
    /\ pc = "done"
    /\ codename = Some("bookworm")
    /\ \E k \in LogIdx :
          /\ IsBackportsInstall(k)
          /\ log[k].cmd.words[4] = "bookworm-backports"
          /\ ExitedWith(k, 0)

(***************************************************************************)
(* C17: when /etc/os-release is missing or has no ID line, get_codename    *)
(* fails with the error it gives for an ID it does not know.               *)
(***************************************************************************)
UnsupportedDistribution == Raise("RuntimeError", "Unable to find Linux distribution")

NoId == "ID" \notin DOMAIN parse_os_release

C17_SameError ==
    (pc # "start" /\ NoId) =>
        /\ get_codename = UnsupportedDistribution
        /\ raised = Some(UnsupportedDistribution)

(***************************************************************************)
(* C18: when every started child terminates, the program ends (done or     *)
(* failed); it makes at most len(prehook_list) + len(posthook_list) + 3    *)
(* calls, at most one for each position of a hook list and at most one     *)
(* for each of apt update, apt install and the backports install.          *)
(***************************************************************************)
CallsOf(st) == {k \in LogIdx : log[k].stage = st}

NoRetry ==
    /\ Len(log) <= Len(prehook_list) + Len(posthook_list) + 3
    /\ \A st \in {"update", "install", "backports"} : Cardinality(CallsOf(st)) <= 1
    /\ \A k \in CallsOf("prehooks") :
          /\ k <= Len(prehook_list)
          /\ log[k].cmd = HookCmd(prehook_list[k])
    /\ \A k \in CallsOf("posthooks") :
          /\ PostHooksBefore(k) + 1 <= Len(posthook_list)
          /\ log[k].cmd = HookCmd(posthook_list[PostHooksBefore(k) + 1])

C18_TerminatesNoRetry ==
    /\ <>(pc \in {"done", "failed"})
    /\ []NoRetry

\* A run that ended after as many calls as the bound allows, among them a
\* refused one.
C18_Witness ==
    /\ pc = "done"
    /\ prehook_list # <<>> /\ posthook_list # <<>>
    /\ Len(log) = Len(prehook_list) + Len(posthook_list) + 3
    /\ \E k \in LogIdx : Denied(k)
    /\ NoRetry

(***************************************************************************)
(* C19: a hook that lies under k of the folders given (a folder given k    *)
(* times, or folders inside one another) is k times in its hook list, a    *)
(* package list under k of them gives its kept lines k times, and a run    *)
(* in which every call exited with 0 has run such a hook exactly k times.  *)
(***************************************************************************)
Reach(f) == Cardinality({r \in 1..Len(argv_folders) : UnderRoot(f, r)})
Occurrences(q, f) == Cardinality({k \in 1..Len(q) : OnDisk(q[k]) = f})
Kept(f) == SelectSeq(LinesOf(fs_seen[f]), LAMBDA l : l # <<>> /\ ~FirstIsHash(l))
EntriesFrom(src, f) == Cardinality({k \in 1..Len(src) : OnDisk(src[k].file) = f})
RunsOf(f) == Cardinality({k \in LogIdx : IsHook(k) /\ OnDisk(log[k].cmd.hook[1]) = f})
AllPlainLists == UNION {MatchedLists(r) : r \in 1..Len(argv_folders)}
AllBackportsLists == UNION {MatchedBackports(r) : r \in 1..Len(argv_folders)}
CleanRun == pc = "done" /\ \A k \in LogIdx : ExitedWith(k, 0)

C19_NoDedup ==
    Discovered =>
        /\ \A f \in HooksOnDisk("prepkg") : Occurrences(prehook_list, f) = Reach(f)
        /\ \A f \in HooksOnDisk("postpkg") : Occurrences(posthook_list, f) = Reach(f)
        /\ SrcAgrees
        /\ \A f \in AllPlainLists : EntriesFrom(package_src, f) = Reach(f) * Len(Kept(f))
        /\ Len(backport_src) = Len(package_backport_list)
        /\ \A f \in AllBackportsLists :
              EntriesFrom(backport_src, f) = Reach(f) * Len(Kept(f))
        /\ CleanRun =>
              \A f \in HooksOnDisk("prepkg") \cup HooksOnDisk("postpkg") :
                  RunsOf(f) = Reach(f)

\* A clean run over folders that reach a pre-hook twice and a package list
\* of two names twice: the hook ran twice and the names were passed twice.
C19_Witness ==
    /\ CleanRun
    /\ \E f \in HooksOnDisk("prepkg") :
          Reach(f) = 2 /\ Occurrences(prehook_list, f) = 2 /\ RunsOf(f) = 2
    /\ \E f \in AllPlainLists :
          /\ Reach(f) = 2 /\ Len(Kept(f)) = 2
          /\ EntriesFrom(package_src, f) = 4
          /\ \E k \in LogIdx : IsInstall(k) /\ Len(log[k].cmd.pkgs) >= 4

====
